---- MODULE Spec2Model ----
(***************************************************************************)
(* ExpenseSlasher: the persistence layer (db_handler.py, on SQLite through *)
(* one process-wide connection) and the service functions of               *)
(* ExpenseSlasherCore.py that write through it.                            *)
(*                                                                         *)
(* The three tables are modelled row by row:                               *)
(*   trans : transaction_id -> [date, desc, amnt]                          *)
(*   tags  : tag_id -> name                                                *)
(*   links : <<transaction_id, tag_id>> -> number of such rows             *)
(* A key of an INTEGER PRIMARY KEY table is allocated as SQLite does       *)
(* without AUTOINCREMENT: one more than the largest key in the table.      *)
(* Name uniqueness and link uniqueness are constraints that the insert     *)
(* statements check; the representation itself can hold duplicates.        *)
(*                                                                         *)
(* DB is what the connection sees (its pending transaction included),      *)
(* disk is what has been committed. A statement may raise sqlite3.Error    *)
(* (a storage error injected at the f-th statement of a call, or a         *)
(* constraint violation); a statement that raises has no effect of its own.*)
(***************************************************************************)
EXTENDS Integers, Sequences, FiniteSets, TLC

\* ------------------------------------------------------------- bounds
MaxTransId == 2      \* largest transaction_id the model lets SQLite allocate
MaxTagId == 2        \* largest tag_id the model lets SQLite allocate
MaxTagList == 2      \* length of a tag list passed to an operation
MaxFault == 3        \* a storage error is injected at statement 1..MaxFault of a call (0: none)

Dates == {"2024-01-05", "2024-02-01"}
Descs == {"Coffee", "Paycheck"}
Amounts == {-2, 3}
TagNames == {"category:Food", "Extra"}

\* ids a caller may pass: those the tables can hold and one that never exists
ArgIds == 1..(MaxTransId + 1)
\* where a storage error may be injected in a call of at most stmts statements
Faults(stmts) == 0..(IF stmts < MaxFault THEN stmts ELSE MaxFault)

RECURSIVE SeqsUpTo(_, _)
SeqsUpTo(S, n) ==
    IF n = 0 THEN {<<>>}
    ELSE LET shorter == SeqsUpTo(S, n - 1)
         IN shorter \cup {Append(q, x) : q \in {r \in shorter : Len(r) = n - 1}, x \in S}

TagLists == SeqsUpTo(TagNames, MaxTagList)

\* An optional argument: None is <<>>, a supplied value v is <<v>>.
None == <<>>
Some(v) == <<v>>
Opt(S) == {None} \cup {Some(v) : v \in S}

VARIABLES DB, disk, last, issued
vars == <<DB, disk, last, issued>>

\* ------------------------------------------------------------- tables
EmptyTable == [k \in {} |-> 0]
EmptyDb == [trans |-> EmptyTable, tags |-> EmptyTable, links |-> EmptyTable]

Restrict(f, S) == [k \in S |-> f[k]]
Put(f, k, v) == [x \in (DOMAIN f) \cup {k} |-> IF x = k THEN v ELSE f[x]]

SetMax(S) == CHOOSE m \in S : \A x \in S : x <= m
\* The rowid SQLite gives a new row of an INTEGER PRIMARY KEY table.
NextRowid(table) == IF DOMAIN table = {} THEN 1 ELSE SetMax(DOMAIN table) + 1

LinksOfTrans(links, tid) == {p \in DOMAIN links : p[1] = tid}
LinksOfTag(links, tagid) == {p \in DOMAIN links : p[2] = tagid}
TagIdsNamed(tags, name) == {t \in DOMAIN tags : tags[t] = name}

\* --------------------------------------------- a call's run of statements
\* s: the tables as the connection sees them, the call's local variables,
\* n: statements left before the injected storage error (0: none), err: the
\* exception raised so far ("" while none).
BeginAt(db, f) ==
    [trans |-> db.trans, tags |-> db.tags, links |-> db.links,
     n |-> f, err |-> "", trans_id |-> 0, tag_id |-> 0, found |-> FALSE, pruned |-> 0]
Begin(f) == BeginAt(DB, f)

Tables(s) == [trans |-> s.trans, tags |-> s.tags, links |-> s.links]

\* The model stops a call that would allocate a key beyond its bounds.
WithinBounds(s) ==
    /\ \A i \in DOMAIN s.trans : i <= MaxTransId
    /\ \A t \in DOMAIN s.tags : t <= MaxTagId

\* CURSOR.execute / DB.commit: the statement raises when the injected error is due.
Step(s) ==
    IF s.err # "" THEN s
    ELSE IF s.n = 1 THEN [s EXCEPT !.err = "OperationalError", !.n = 0]
    ELSE [s EXCEPT !.n = IF @ = 0 THEN 0 ELSE @ - 1]

Raise(s, e) == [s EXCEPT !.err = e]

\* INSERT INTO transactions (date,desc,amnt) VALUES (?,?,?); trans_id = lastrowid
InsertTransaction(s, date, desc, amnt) ==
    LET s1 == Step(s)
        id == NextRowid(s1.trans)
    IN IF s1.err # "" THEN s1
       ELSE [s1 EXCEPT !.trans = Put(@, id, [date |-> date, desc |-> desc, amnt |-> amnt]),
                       !.trans_id = id]

\* SELECT ROWID FROM tags WHERE name = ?; fetchone()
SelectTagByName(s, name) ==
    LET s1 == Step(s)
        ids == TagIdsNamed(s1.tags, name)
    IN IF s1.err # "" THEN s1
       ELSE IF ids = {} THEN [s1 EXCEPT !.found = FALSE]
       ELSE [s1 EXCEPT !.found = TRUE, !.tag_id = CHOOSE t \in ids : \A u \in ids : t <= u]

\* INSERT INTO tags (name) VALUES (?); tag_id = lastrowid. name is UNIQUE.
InsertTag(s, name) ==
    LET s1 == Step(s)
        id == NextRowid(s1.tags)
    IN IF s1.err # "" THEN s1
       ELSE IF TagIdsNamed(s1.tags, name) # {} THEN Raise(s1, "IntegrityError")
       ELSE [s1 EXCEPT !.tags = Put(@, id, name), !.tag_id = id]

\* variant: the insert without the lookup before it
InsertTagNoLookup(s, name) == InsertTag(s, name)

\* "see if tag exists in tag table ... else, insert new entry"
LookupOrCreateTag(s, name) ==
    LET s1 == SelectTagByName(s, name)
    IN IF s1.err # "" \/ s1.found THEN s1 ELSE InsertTag(s1, name)

\* variant: the foreign keys never switched on
ForeignKeysOff(s, tid, tagid) == TRUE

\* The foreign keys of transactions_tags (PRAGMA foreign_keys = ON).
ForeignKeysHold(s, tid, tagid) == tid \in DOMAIN s.trans /\ tagid \in DOMAIN s.tags

AddLinkRow(links, p) ==
    [q \in (DOMAIN links) \cup {p} |->
        IF q = p THEN (IF p \in DOMAIN links THEN links[p] + 1 ELSE 1) ELSE links[q]]

\* INSERT INTO transactions_tags (transaction_id,tag_id) VALUES (?,?)
InsertLink(s, tid, tagid) ==
    LET s1 == Step(s)
    IN IF s1.err # "" THEN s1
       ELSE IF <<tid, tagid>> \in DOMAIN s1.links THEN Raise(s1, "IntegrityError")
       ELSE IF ~ForeignKeysHold(s1, tid, tagid) THEN Raise(s1, "IntegrityError")
       ELSE [s1 EXCEPT !.links = AddLinkRow(@, <<tid, tagid>>)]

\* DB.commit(), the last statement of a try block
CommitStep(s) == Step(s)

\* ------------------------------------------------------ db_add_transaction
RECURSIVE AddTransactionTags(_, _)
AddTransactionTags(s, tagl) ==
    IF tagl = <<>> \/ s.err # "" THEN s
    ELSE LET s1 == LookupOrCreateTag(s, Head(tagl))
             s2 == IF s1.err # "" THEN s1 ELSE InsertLink(s1, s1.trans_id, s1.tag_id)
         IN AddTransactionTags(s2, Tail(tagl))

\* the try block: the inserts, then DB.commit()
AddTransactionTry(s, date, desc, amnt, tagl) ==
    CommitStep(AddTransactionTags(InsertTransaction(s, date, desc, amnt), tagl))

\* What a call leaves behind: committed, rolled back, or (no rollback in the
\* handler) the pending transaction left open.
Committed(s) == /\ DB' = Tables(s)
                /\ disk' = Tables(s)
RolledBack == /\ DB' = disk
              /\ disk' = disk
LeftPending(s) == /\ DB' = Tables(s)
                  /\ disk' = disk

\* variant: the handler without its DB.rollback()
AddTransactionExceptNoRollback(s) == LeftPending(s)

\* except sqlite3.Error: DB.rollback(); return False
AddTransactionExcept(s) == RolledBack

\* What the last call was and what it returned: ok is the returned flag, err
\* the exception its handler caught, args what the call was given where a
\* property needs it, out what a query or a service call returned.
Result(op, id, s) ==
    [op |-> op, ok |-> s.err = "", id |-> id, err |-> s.err, pruned |-> s.pruned,
     args |-> <<>>, out |-> <<>>]
\* a return before any statement ran (a guard of the function)
Refused(op, id) ==
    [op |-> op, ok |-> FALSE, id |-> id, err |-> "", pruned |-> 0, args |-> <<>>, out |-> <<>>]

DbAddTransaction(date, desc, amnt, tagl, f) ==
    /\ LET s == AddTransactionTry(Begin(f), date, desc, amnt, tagl)
       IN /\ WithinBounds(s)
          /\ IF s.err = "" THEN Committed(s) ELSE AddTransactionExcept(s)
          /\ last' = [Result("db_add_transaction", s.trans_id, s) EXCEPT !.args = tagl]
          /\ issued' = IF s.err = "" THEN issued \cup {s.trans_id} ELSE issued

\* ----------------------------------------------------- db_edit_transaction
\* variant: an UPDATE that raises when no row has the id
UpdateExistingOnly(s, id, date, desc, amnt) ==
    LET s1 == Step(s)
    IN IF s1.err # "" THEN s1
       ELSE IF id \notin DOMAIN s1.trans THEN Raise(s1, "ProgrammingError")
       ELSE [s1 EXCEPT !.trans[id] =
                [date |-> IF date = None THEN @.date ELSE date[1],
                 desc |-> IF desc = None THEN @.desc ELSE desc[1],
                 amnt |-> IF amnt = None THEN @.amnt ELSE amnt[1]]]

\* variant: an UPDATE that sets all three columns, the unsupplied ones to NULL
UpdateAllColumns(s, id, date, desc, amnt) ==
    LET s1 == Step(s)
    IN IF s1.err # "" \/ id \notin DOMAIN s1.trans THEN s1
       ELSE [s1 EXCEPT !.trans[id] =
                [date |-> IF date = None THEN "NULL" ELSE date[1],
                 desc |-> IF desc = None THEN "NULL" ELSE desc[1],
                 amnt |-> IF amnt = None THEN 0 ELSE amnt[1]]]

\* UPDATE transactions SET <the supplied columns> WHERE ROWID = ?
UpdateTransaction(s, id, date, desc, amnt) ==
    LET s1 == Step(s)
    IN IF s1.err # "" \/ id \notin DOMAIN s1.trans THEN s1
       ELSE [s1 EXCEPT !.trans[id] =
                [date |-> IF date = None THEN @.date ELSE date[1],
                 desc |-> IF desc = None THEN @.desc ELSE desc[1],
                 amnt |-> IF amnt = None THEN @.amnt ELSE amnt[1]]]

\* "if not commands": no column was supplied
NoCommands(date, desc, amnt) == date = None /\ desc = None /\ amnt = None

EditTransactionTry(s, id, date, desc, amnt) ==
    CommitStep(UpdateTransaction(s, id, date, desc, amnt))

\* except sqlite3.Error: DB.rollback(); return False
EditTransactionExcept(s) == RolledBack

DbEditTransaction(id, date, desc, amnt, f) ==
    /\ IF NoCommands(date, desc, amnt)
       THEN /\ UNCHANGED <<DB, disk>>
            /\ last' = [Refused("db_edit_transaction", id) EXCEPT !.args = <<date, desc, amnt>>]
       ELSE LET s == EditTransactionTry(Begin(f), id, date, desc, amnt)
            IN /\ IF s.err = "" THEN Committed(s) ELSE EditTransactionExcept(s)
               /\ last' = [Result("db_edit_transaction", id, s) EXCEPT
                               !.args = <<date, desc, amnt>>]
    /\ UNCHANGED issued

\* ------------------------------------------------- db_add_transaction_tags
\* variant: the link insert without OR IGNORE, as db_add_transaction has it
InsertLinkNoIgnore(s, tid, tagid) == InsertLink(s, tid, tagid)

\* INSERT OR IGNORE INTO transactions_tags: a duplicate pair is skipped; the
\* conflict clause does not cover the foreign keys.
InsertLinkOrIgnore(s, tid, tagid) ==
    LET s1 == Step(s)
    IN IF s1.err # "" THEN s1
       ELSE IF <<tid, tagid>> \in DOMAIN s1.links THEN s1
       ELSE IF ~ForeignKeysHold(s1, tid, tagid) THEN Raise(s1, "IntegrityError")
       ELSE [s1 EXCEPT !.links = AddLinkRow(@, <<tid, tagid>>)]

RECURSIVE AddTagsLoop(_, _, _)
AddTagsLoop(s, id, tagl) ==
    IF tagl = <<>> \/ s.err # "" THEN s
    ELSE LET s1 == LookupOrCreateTag(s, Head(tagl))
             s2 == IF s1.err # "" THEN s1 ELSE InsertLinkOrIgnore(s1, id, s1.tag_id)
         IN AddTagsLoop(s2, id, Tail(tagl))

AddTransactionTagsTry(s, id, tagl) == CommitStep(AddTagsLoop(s, id, tagl))

\* except sqlite3.Error: DB.rollback(); return False
AddTransactionTagsExcept(s) == RolledBack

DbAddTransactionTags(id, tags, f) ==
    /\ IF tags = None
       THEN /\ UNCHANGED <<DB, disk>>
            /\ last' = Refused("db_add_transaction_tags", id)
       ELSE LET s == AddTransactionTagsTry(Begin(f), id, tags[1])
            IN /\ WithinBounds(s)
               /\ IF s.err = "" THEN Committed(s) ELSE AddTransactionTagsExcept(s)
               /\ last' = Result("db_add_transaction_tags", id, s)
    /\ UNCHANGED issued

\* ---------------------------------------------- db_delete_transaction_tags
\* DELETE FROM transactions_tags WHERE transaction_id = ? AND tag_id = ?
DeleteLink(s, tid, tagid) ==
    LET s1 == Step(s)
    IN IF s1.err # "" THEN s1
       ELSE [s1 EXCEPT !.links = Restrict(@, (DOMAIN @) \ {<<tid, tagid>>})]

RECURSIVE SumCopies(_, _)
SumCopies(links, ps) ==
    IF ps = {} THEN 0
    ELSE LET p == CHOOSE q \in ps : TRUE IN links[p] + SumCopies(links, ps \ {p})

\* variant: a count that finds no link left, so that every named tag is pruned
CountNoLinks(s, tagid) == 0

\* SELECT COUNT(*) FROM transactions_tags WHERE tag_id = ?
CountLinks(s, tagid) == SumCopies(s.links, LinksOfTag(s.links, tagid))

\* variant: the tag delete without the cascade to the links
DeleteTagRowsNoCascade(s, ids) ==
    LET s1 == Step(s)
    IN IF s1.err # "" THEN s1
       ELSE [s1 EXCEPT !.tags = Restrict(@, (DOMAIN @) \ ids)]

\* DELETE FROM tags WHERE ROWID in ids; ON DELETE CASCADE removes their links
DeleteTagRows(s, ids) ==
    LET s1 == Step(s)
    IN IF s1.err # "" THEN s1
       ELSE [s1 EXCEPT !.tags = Restrict(@, (DOMAIN @) \ ids),
                       !.links = Restrict(@, {p \in DOMAIN @ : p[2] \notin ids})]

\* the body of the loops: unlink one name, prune its tag when nothing links to it
RemoveOneTag(s, id, name) ==
    LET s1 == SelectTagByName(s, name)
        s2 == DeleteLink(s1, id, s1.tag_id)
        s3 == Step(s2)
        d == DeleteTagRows(s3, {s3.tag_id})
        s4 == IF CountLinks(s3, s3.tag_id) # 0 THEN s3
              ELSE IF d.err # "" THEN d
              ELSE [d EXCEPT !.pruned = @ + 1]
    IN IF s1.err # "" \/ ~s1.found THEN s1
       ELSE IF s2.err # "" THEN s2
       ELSE IF s3.err # "" THEN s3
       ELSE s4

RECURSIVE RemoveTagsInner(_, _, _)
RemoveTagsInner(s, id, tagl) ==
    IF tagl = <<>> \/ s.err # "" THEN s
    ELSE RemoveTagsInner(RemoveOneTag(s, id, Head(tagl)), id, Tail(tagl))

\* "for tag in tags: for tag in tags:": the inner loop runs once per element
RECURSIVE RemoveTagsOuter(_, _, _, _)
RemoveTagsOuter(s, id, tagl, rounds) ==
    IF rounds = 0 \/ s.err # "" THEN s
    ELSE RemoveTagsOuter(RemoveTagsInner(s, id, tagl), id, tagl, rounds - 1)

DeleteTransactionTagsTry(s, id, tagl) ==
    CommitStep(RemoveTagsOuter(s, id, tagl, Len(tagl)))

\* except sqlite3.Error: return False. The handler does not roll back: the
\* statements that ran stay in the connection's open transaction.
DeleteTransactionTagsExcept(s) == LeftPending(s)

DbDeleteTransactionTags(id, tags, f) ==
    /\ IF tags = None
       THEN /\ UNCHANGED <<DB, disk>>
            /\ last' = Refused("db_delete_transaction_tags", id)
       ELSE LET s == DeleteTransactionTagsTry(Begin(f), id, tags[1])
            IN /\ IF s.err = "" THEN Committed(s) ELSE DeleteTransactionTagsExcept(s)
               /\ last' = [Result("db_delete_transaction_tags", id, s) EXCEPT
                               !.args = tags[1]]
    /\ UNCHANGED issued

\* --------------------------------------------------- db_delete_transaction
\* SELECT ROWID FROM transactions WHERE ROWID = ?; fetchone()
SelectTransaction(s, id) ==
    LET s1 == Step(s)
    IN IF s1.err # "" THEN s1 ELSE [s1 EXCEPT !.found = id \in DOMAIN s1.trans]

\* DELETE FROM transactions WHERE ROWID = ?; ON DELETE CASCADE removes its links
DeleteTransactionRow(s, id) ==
    LET s1 == Step(s)
    IN IF s1.err # "" THEN s1
       ELSE [s1 EXCEPT !.trans = Restrict(@, (DOMAIN @) \ {id}),
                       !.links = Restrict(@, {p \in DOMAIN @ : p[1] # id})]

\* tags LEFT JOIN transactions_tags ... WHERE JT.tag_id IS NULL
OrphanedTags(s) == {t \in DOMAIN s.tags : LinksOfTag(s.links, t) = {}}

\* variant: the delete without the pruning of orphaned tags
PruneNothing(s) == Step(s)

\* "THEN prune tag table for orphaned tags"
PruneOrphans(s) ==
    LET s1 == Step(s)
        orphaned_ids == OrphanedTags(s1)
        s2 == [s1 EXCEPT !.pruned = Cardinality(orphaned_ids)]
    IN IF s1.err # "" THEN s1
       ELSE IF orphaned_ids = {} THEN s2
       ELSE DeleteTagRows(s2, orphaned_ids)

DeleteTransactionFound(s, id) == CommitStep(PruneOrphans(DeleteTransactionRow(s, id)))

\* except sqlite3.Error: DB.rollback(); return False
DeleteTransactionExcept(s) == RolledBack

DbDeleteTransaction(tid, f) ==
    /\ IF tid = None
       THEN /\ UNCHANGED <<DB, disk>>
            /\ last' = Refused("db_delete_transaction", 0)
       ELSE LET id == tid[1]
                s1 == SelectTransaction(Begin(f), id)
                s == DeleteTransactionFound(s1, id)
            IN IF s1.err # ""
               THEN DeleteTransactionExcept(s1) /\ last' = Result("db_delete_transaction", id, s1)
               ELSE IF ~s1.found
               THEN UNCHANGED <<DB, disk>> /\ last' = Refused("db_delete_transaction", id)
               ELSE /\ IF s.err = "" THEN Committed(s) ELSE DeleteTransactionExcept(s)
                    /\ last' = Result("db_delete_transaction", id, s)
    /\ UNCHANGED issued

\* ----------------------------------------------------------- db_delete_tag
\* DELETE FROM tags WHERE name = ?
RECURSIVE DeleteTagsLoop(_, _)
DeleteTagsLoop(s, tagl) ==
    IF tagl = <<>> \/ s.err # "" THEN s
    ELSE DeleteTagsLoop(DeleteTagRows(s, TagIdsNamed(s.tags, Head(tagl))), Tail(tagl))

DeleteTagTry(s, tagl) == CommitStep(DeleteTagsLoop(s, tagl))

\* except sqlite3.Error: DB.rollback(); return False
DeleteTagExcept(s) == RolledBack

DbDeleteTag(tags, f) ==
    /\ IF tags = None
       THEN /\ UNCHANGED <<DB, disk>>
            /\ last' = Refused("db_delete_tag", 0)
       ELSE LET s == DeleteTagTry(Begin(f), tags[1])
            IN /\ IF s.err = "" THEN Committed(s) ELSE DeleteTagExcept(s)
               /\ last' = [Result("db_delete_tag", 0, s) EXCEPT !.args = tags[1]]
    /\ UNCHANGED issued

\* ------------------------- remove_transaction_by_id (ExpenseSlasherCore.py)
\* DELETE FROM transactions_tags WHERE transaction_id = ?
DeleteLinksOfTransaction(s, id) ==
    LET s1 == Step(s)
    IN IF s1.err # "" THEN s1
       ELSE [s1 EXCEPT !.links = Restrict(@, {p \in DOMAIN @ : p[1] # id})]

\* DELETE FROM tags WHERE ROWID IN (the tags no link refers to)
DeleteOrphanTags(s) ==
    IF s.err # "" THEN s ELSE DeleteTagRows(s, OrphanedTags(s))

RemoveTransactionTry(s, id) ==
    CommitStep(DeleteOrphanTags(DeleteTransactionRow(DeleteLinksOfTransaction(s, id), id)))

\* except Exception: db.DB.rollback(); return False
RemoveTransactionExcept(s) == RolledBack

RemoveTransactionById(id, f) ==
    /\ LET s == RemoveTransactionTry(Begin(f), id)
       IN /\ IF s.err = "" THEN Committed(s) ELSE RemoveTransactionExcept(s)
          /\ last' = Result("remove_transaction_by_id", id, s)
    /\ UNCHANGED issued

\* ------------------------------------------------------------------ spec
\* db_init on a fresh file: the three tables are created empty
\* ------------------------------------------------ db_fetch_all, db_fetch_set
\* Text that a query or the service layer looks into is a sequence of pieces:
\* a tag name is pieces such as <<"category:", "Food">>, a description is its
\* characters, the comma is the piece ",".
RECURSIVE Join(_)
Join(names) ==
    IF names = <<>> THEN <<>>
    ELSE IF Len(names) = 1 THEN names[1]
    ELSE names[1] \o <<",">> \o Join(Tail(names))

RECURSIVE Ascending(_)
Ascending(S) ==
    IF S = {} THEN <<>>
    ELSE LET m == CHOOSE x \in S : \A y \in S : x <= y
         IN <<m>> \o Ascending(S \ {m})

\* FROM transactions AS T LEFT JOIN transactions_tags AS JT ON T.ROWID =
\* JT.transaction_id LEFT JOIN tags AS Tag ON JT.tag_id = Tag.ROWID: one row
\* per link row of a transaction, and one row of NULLs for a transaction
\* that has no link.
LinkedRows(db) ==
    UNION {{[tid |-> p[1], tagid |-> p[2], copy |-> k,
             named |-> p[2] \in DOMAIN db.tags,
             name |-> IF p[2] \in DOMAIN db.tags THEN db.tags[p[2]] ELSE <<>>] :
              k \in 1..db.links[p]} :
           p \in {q \in DOMAIN db.links : q[1] \in DOMAIN db.trans}}

\* variant: JOIN instead of LEFT JOIN, which drops the untagged transactions
InnerJoin(db) == LinkedRows(db)

LeftJoin(db) ==
    LinkedRows(db) \cup
    {[tid |-> t, tagid |-> 0, copy |-> 1, named |-> FALSE, name |-> <<>>] :
        t \in {u \in DOMAIN db.trans : LinksOfTrans(db.links, u) = {}}}

\* GROUP_CONCAT(Tag.name) over the joined rows of one transaction: the names
\* that are not NULL, joined by commas in the order the join visits the
\* links (the index on (transaction_id, tag_id): ascending tag_id); NULL
\* when there is none.
RECURSIVE NamesInOrder(_)
NamesInOrder(rows) ==
    IF rows = {} THEN <<>>
    ELSE LET r == CHOOSE x \in rows : \A y \in rows :
                      x.tagid < y.tagid \/ (x.tagid = y.tagid /\ x.copy <= y.copy)
         IN <<r.name>> \o NamesInOrder(rows \ {r})

GroupConcat(rows) ==
    LET named == {r \in rows : r.named}
    IN IF named = {} THEN None ELSE Some(Join(NamesInOrder(named)))

\* GROUP BY T.ROWID: one output row per transaction that has a joined row
\* left, in ascending ROWID.
GroupByRowid(db, rows) ==
    LET ids == Ascending({r.tid : r \in rows})
    IN [i \in 1..Len(ids) |->
          [id |-> ids[i],
           date |-> db.trans[ids[i]].date,
           desc |-> db.trans[ids[i]].desc,
           amnt |-> db.trans[ids[i]].amnt,
           tags |-> GroupConcat({r \in rows : r.tid = ids[i]})]]

FetchAll(db) == GroupByRowid(db, LeftJoin(db))

DbFetchAll ==
    /\ last' = [Refused("db_fetch_all", 0) EXCEPT !.ok = TRUE, !.out = FetchAll(DB)]
    /\ UNCHANGED <<DB, disk, issued>>

\* str.lower(), and the case folding of LIKE, on the pieces that have an
\* upper-case letter
Lower(piece) ==
    CASE piece = "C" -> "c"
      [] piece = "Category:" -> "category:"
      [] piece = "Income" -> "income"
      [] piece = "EXPENSE" -> "expense"
      [] OTHER -> piece

\* SQLite's LIKE: % matches any run of characters, _ any one character, and
\* letters match without regard to case.
RECURSIVE Like(_, _)
Like(pat, str) ==
    IF pat = <<>> THEN str = <<>>
    ELSE IF Head(pat) = "%"
         THEN Like(Tail(pat), str) \/ (str # <<>> /\ Like(pat, Tail(str)))
    ELSE /\ str # <<>>
         /\ (Head(pat) = "_" \/ Lower(Head(pat)) = Lower(Head(str)))
         /\ Like(Tail(pat), Tail(str))

\* variant: the amount comparisons exclusive of the bound
AmntExclusive(amnt, stored) ==
    IF amnt.float THEN stored = amnt.val
    ELSE IF amnt.tok \in {"-", "<"} THEN stored < amnt.val
    ELSE IF amnt.tok \in {"+", ">"} THEN stored > amnt.val
    ELSE stored = amnt.val

\* the amount criterion: a float is an exact search, a tuple <<token, value>>
\* is <= for '-' and '<', >= for '+' and '>', and exact for any other token
AmntMatches(amnt, stored) ==
    IF amnt.float THEN stored = amnt.val
    ELSE IF amnt.tok \in {"-", "<"} THEN stored <= amnt.val
    ELSE IF amnt.tok \in {"+", ">"} THEN stored >= amnt.val
    ELSE stored = amnt.val

\* WHERE 1=1 and one more condition for each criterion that was supplied
Where(db, r, date, desc, amnt, tags) ==
    LET T == db.trans[r.tid]
    IN /\ date # None => T.date = date[1]
       /\ desc # None => Like(<<"%">> \o desc[1] \o <<"%">>, T.desc)
       /\ amnt # None => AmntMatches(amnt[1], T.amnt)
       /\ (tags # None /\ tags[1] # <<>>) =>
             (r.named /\ \E k \in 1..Len(tags[1]) : tags[1][k] = r.name)

FetchSet(db, date, desc, amnt, tags) ==
    GroupByRowid(db, {r \in LeftJoin(db) : Where(db, r, date, desc, amnt, tags)})

DbFetchSet(date, desc, amnt, tags) ==
    /\ last' = [Refused("db_fetch_set", 0) EXCEPT !.ok = TRUE,
                    !.args = <<date, desc, amnt, tags>>,
                    !.out = FetchSet(DB, date, desc, amnt, tags)]
    /\ UNCHANGED <<DB, disk, issued>>

\* ------------------------------------ the service layer: ExpenseSlasherCore
\* (ExpenseSlasherCore.py, and the runner src/ExpenseSlasherCore.py that binds
\* its own functions into the CLI)
\* str.strip(): the text without its leading and trailing blanks
RECURSIVE LStrip(_)
LStrip(str) == IF str # <<>> /\ Head(str) = " " THEN LStrip(Tail(str)) ELSE str
RECURSIVE RStrip(_)
RStrip(str) ==
    IF str # <<>> /\ str[Len(str)] = " " THEN RStrip(SubSeq(str, 1, Len(str) - 1)) ELSE str
Strip(str) == RStrip(LStrip(str))

LowerStr(str) == [k \in 1..Len(str) |-> Lower(str[k])]

\* abs()
Abs(x) == IF x < 0 THEN -x ELSE x

\* datetime.today().strftime("%Y-%m-%d")
Today == <<"today">>

\* t = (ttype or "").strip().lower()
TypeOf(ttype) == IF ttype = None THEN <<>> ELSE LowerStr(Strip(ttype[1]))

\* variant: a sign conversion that stores every magnitude as it is
SignedFromUnsigned(amount, ttype) == Abs(amount)

\* _signed_from: 'income' -> negative, anything else -> positive
SignedFrom(amount, ttype) ==
    IF TypeOf(ttype) = <<"income">> THEN -Abs(amount) ELSE Abs(amount)

\* [f"category:{category}"] if category else []
CategoryTags(category) ==
    IF category = None \/ category[1] = <<>> THEN <<>>
    ELSE <<<<"category:">> \o category[1]>>

\* add_transaction of ExpenseSlasherCore.py: no validation of the type
AddTransaction(date, description, category, amount, ttype) ==
    LET d == IF date = None \/ date[1] = <<>> THEN Today ELSE date[1]
        signed == SignedFrom(amount, ttype)
        tags == CategoryTags(category)
    IN \E s \in {AddTransactionTry(Begin(0), d, description, signed, tags)} :
          /\ WithinBounds(s)
          /\ IF s.err = "" THEN Committed(s) ELSE AddTransactionExcept(s)
          /\ last' = [Result("add_transaction", s.trans_id, s) EXCEPT
                          !.args = <<category, amount, ttype>>]
          /\ issued' = IF s.err = "" THEN issued \cup {s.trans_id} ELSE issued

\* _normalize_type: ValueError unless the type is 'income' or 'expense'
NormalizeType(ttype) ==
    IF TypeOf(ttype) \in {<<"income">>, <<"expense">>}
    THEN [err |-> "", t |-> TypeOf(ttype)]
    ELSE [err |-> "ValueError", t |-> <<>>]

\* _make_tags(category.strip() if category else None)
MakeTags(category) ==
    IF category = None \/ category[1] = <<>> THEN <<>>
    ELSE CategoryTags(Some(Strip(category[1])))

\* add_transaction of the runner: validates the type, strips the date and
\* the category, returns nothing
RunnerAddTransaction(date, description, category, amount, ttype) ==
    LET nt == NormalizeType(ttype)
        d == IF date = None \/ date[1] = <<>> THEN Today ELSE Strip(date[1])
        amt == IF nt.t = <<"income">> THEN -Abs(amount) ELSE Abs(amount)
        tags == MakeTags(category)
    IN IF nt.err # ""
       THEN /\ last' = [Refused("runner.add_transaction", 0) EXCEPT
                            !.err = nt.err, !.args = <<category, amount, ttype>>]
            /\ UNCHANGED <<DB, disk, issued>>
       ELSE \E s \in {AddTransactionTry(Begin(0), d, description, amt, tags)} :
               /\ WithinBounds(s)
               /\ IF s.err = "" THEN Committed(s) ELSE AddTransactionExcept(s)
               /\ last' = [Result("runner.add_transaction", s.trans_id, s) EXCEPT
                               !.args = <<category, amount, ttype>>]
               /\ issued' = IF s.err = "" THEN issued \cup {s.trans_id} ELSE issued

\* str.split(","): the runs between the commas
RECURSIVE SplitComma(_)
SplitComma(str) ==
    IF \A k \in 1..Len(str) : str[k] # "," THEN <<str>>
    ELSE LET i == CHOOSE k \in 1..Len(str) :
                      str[k] = "," /\ \A j \in 1..(k - 1) : str[j] # ","
         IN <<SubSeq(str, 1, i - 1)>> \o SplitComma(SubSeq(str, i + 1, Len(str)))

\* _extract_category of the runner: the text after "category:" of the first
\* part of the blob that starts with it; "" when there is none
RECURSIVE FirstCategory(_)
FirstCategory(parts) ==
    IF parts = <<>> THEN <<>>
    ELSE IF Head(parts) # <<>> /\ Head(Head(parts)) = "category:" THEN Tail(Head(parts))
    ELSE FirstCategory(Tail(parts))

ExtractCategory(tags) ==
    IF tags = None \/ tags[1] = <<>> THEN <<>> ELSE FirstCategory(SplitComma(tags[1]))

\* _category_from_tags of ExpenseSlasherCore.py: each part stripped, the
\* prefix compared in lower case
RECURSIVE FirstCategoryAnyCase(_)
FirstCategoryAnyCase(parts) ==
    LET tag == Strip(Head(parts))
    IN IF parts = <<>> THEN <<>>
       ELSE IF tag # <<>> /\ Lower(Head(tag)) = "category:" THEN Tail(tag)
       ELSE FirstCategoryAnyCase(Tail(parts))

CategoryFromTags(tag_blob) ==
    IF tag_blob = None \/ tag_blob[1] = <<>> THEN <<>>
    ELSE FirstCategoryAnyCase(SplitComma(tag_blob[1]))

\* ttype = "expense" if amnt >= 0 else "income"
TypeFromAmnt(amnt) == IF amnt >= 0 THEN <<"expense">> ELSE <<"income">>

\* load_transactions of the runner
LoadTransactions(db) ==
    LET rows == FetchAll(db)
    IN [i \in 1..Len(rows) |->
          [id |-> rows[i].id,
           date |-> rows[i].date,
           description |-> rows[i].desc,
           category |-> ExtractCategory(rows[i].tags),
           amount |-> Abs(rows[i].amnt),
           type |-> TypeFromAmnt(rows[i].amnt)]]

RunnerLoadTransactions ==
    /\ last' = [Refused("runner.load_transactions", 0) EXCEPT
                    !.ok = TRUE, !.out = LoadTransactions(DB)]
    /\ UNCHANGED <<DB, disk, issued>>

\* _rows_to_dicts of ExpenseSlasherCore.py: the dict of a row calls
\* _type_from_amount, a name the module does not define, so the first row
\* raises NameError; no row, no dict.
RowsToDicts(rows) ==
    IF rows = <<>> THEN [err |-> "", out |-> <<>>]
    ELSE [err |-> "NameError", out |-> <<>>]

\* list_transactions of ExpenseSlasherCore.py
ListTransactions ==
    LET r == RowsToDicts(FetchAll(DB))
    IN /\ last' = [Refused("list_transactions", 0) EXCEPT
                       !.ok = (r.err = ""), !.err = r.err, !.out = r.out]
       /\ UNCHANGED <<DB, disk, issued>>

\* sum(f(x) for x in seq if keep(x)), the terms given as a sequence of numbers
RECURSIVE Sum(_)
Sum(nums) == IF nums = <<>> THEN 0 ELSE Head(nums) + Sum(Tail(nums))

\* variant: the net taken as expenses minus income
TotalsNetReversed(rows) ==
    LET inc == Sum([i \in 1..Len(rows) |-> IF rows[i].amnt < 0 THEN -rows[i].amnt ELSE 0])
        exp == Sum([i \in 1..Len(rows) |-> IF rows[i].amnt > 0 THEN rows[i].amnt ELSE 0])
    IN [total_income |-> inc, total_expenses |-> exp, net_savings |-> exp - inc]

\* totals of ExpenseSlasherCore.py, on the rows of db_fetch_all
TotalsOf(rows) ==
    LET inc == Sum([i \in 1..Len(rows) |-> IF rows[i].amnt < 0 THEN -rows[i].amnt ELSE 0])
        exp == Sum([i \in 1..Len(rows) |-> IF rows[i].amnt > 0 THEN rows[i].amnt ELSE 0])
    IN [total_income |-> inc, total_expenses |-> exp, net_savings |-> inc - exp]

Totals ==
    /\ last' = [Refused("totals", 0) EXCEPT !.ok = TRUE, !.out = <<TotalsOf(FetchAll(DB))>>]
    /\ UNCHANGED <<DB, disk, issued>>

\* total_income, total_expenses and net_savings of the runner, on a list of
\* records
TotalIncome(transactions) ==
    Sum([i \in 1..Len(transactions) |->
            IF transactions[i].type = <<"income">> THEN transactions[i].amount ELSE 0])
TotalExpenses(transactions) ==
    Sum([i \in 1..Len(transactions) |->
            IF transactions[i].type = <<"expense">> THEN transactions[i].amount ELSE 0])
NetSavings(transactions) == TotalIncome(transactions) - TotalExpenses(transactions)

\* the three of them on the list load_transactions returns
RunnerTotals ==
    /\ \E txns \in {LoadTransactions(DB)} :
          last' = [Refused("runner.totals", 0) EXCEPT
                      !.ok = TRUE,
                      !.out = <<[total_income |-> TotalIncome(txns),
                                 total_expenses |-> TotalExpenses(txns),
                                 net_savings |-> NetSavings(txns)]>>]
    /\ UNCHANGED <<DB, disk, issued>>

\* variant: only the upper end of the range is checked, and a negative
\* index counts from the end of the list as Python's indexing does
RunnerRemoveNegativeIndex(index) ==
    /\ \E txns \in {LoadTransactions(DB)} :
          IF index >= Len(txns)
          THEN /\ last' = [Refused("runner.remove_transaction_by_index", 0) EXCEPT
                               !.args = <<index>>, !.out = <<Len(txns)>>]
               /\ UNCHANGED <<DB, disk>>
          ELSE IF index < 0 /\ Len(txns) + index < 0
          THEN /\ last' = [Refused("runner.remove_transaction_by_index", 0) EXCEPT
                               !.args = <<index>>, !.err = "IndexError"]
               /\ UNCHANGED <<DB, disk>>
          ELSE \E target \in {txns[IF index < 0 THEN Len(txns) + index + 1 ELSE index + 1]} :
               \E s \in {DeleteTransactionFound(SelectTransaction(Begin(0), target.id),
                                                target.id)} :
                  /\ IF s.err = "" THEN Committed(s) ELSE DeleteTransactionExcept(s)
                  /\ last' = [Result("runner.remove_transaction_by_index", target.id, s) EXCEPT
                                  !.args = <<index>>,
                                  !.out = IF s.err = "" THEN <<target>> ELSE <<Len(txns)>>]
    /\ UNCHANGED issued

\* remove_transaction_by_index of the runner: the index is checked against
\* the list just loaded, the row deleted by db_delete_transaction
RunnerRemoveTransactionByIndex(index) ==
    /\ \E txns \in {LoadTransactions(DB)} :
          IF index < 0 \/ index >= Len(txns)
          THEN /\ last' = [Refused("runner.remove_transaction_by_index", 0) EXCEPT
                               !.args = <<index>>, !.out = <<Len(txns)>>]
               /\ UNCHANGED <<DB, disk>>
          ELSE \E target \in {txns[index + 1]} :
               \E s \in {DeleteTransactionFound(SelectTransaction(Begin(0), target.id),
                                                target.id)} :
                  /\ IF s.err = "" THEN Committed(s) ELSE DeleteTransactionExcept(s)
                  /\ last' = [Result("runner.remove_transaction_by_index", target.id, s) EXCEPT
                                  !.args = <<index>>,
                                  !.out = IF s.err = "" THEN <<target>> ELSE <<Len(txns)>>]
    /\ UNCHANGED issued

\* remove_transaction_by_index of ExpenseSlasherCore.py: the dict of the row
\* is built before the delete, and building it raises
RemoveTransactionByIndex(index) ==
    /\ \E rows \in {FetchAll(DB)} :
          IF index < 0 \/ index >= Len(rows)
          THEN /\ last' = [Refused("remove_transaction_by_index", 0) EXCEPT
                               !.args = <<index>>, !.out = <<Len(rows)>>]
               /\ UNCHANGED <<DB, disk>>
          ELSE \E removed \in {RowsToDicts(<<rows[index + 1]>>)} :
               IF removed.err # ""
               THEN /\ last' = [Refused("remove_transaction_by_index", rows[index + 1].id)
                                   EXCEPT !.args = <<index>>, !.err = removed.err]
                    /\ UNCHANGED <<DB, disk>>
               ELSE \E s \in {RemoveTransactionTry(Begin(0), rows[index + 1].id)} :
                       /\ IF s.err = "" THEN Committed(s) ELSE RemoveTransactionExcept(s)
                       /\ last' = [Result("remove_transaction_by_index", rows[index + 1].id, s)
                                      EXCEPT !.args = <<index>>,
                                             !.out = IF s.err = "" THEN removed.out
                                                     ELSE <<Len(rows)>>]
    /\ UNCHANGED issued

\* the row of one id, as both SELECTs of edit_transaction_by_id fetch it
CurrentRow(db, id) ==
    GroupByRowid(db, {r \in LeftJoin(db) : r.tid = id})

\* A value computed once and then used: the one element of the set of
\* results.
TheOne(S) == CHOOSE x \in S : TRUE

\* What a function that calls several storage operations has to track: conn,
\* the tables as the connection sees them, and disk, what is committed.
AfterCommit(s) == [conn |-> Tables(s), disk |-> Tables(s)]

\* _replace_category_tag: the old category tag unlinked through
\* db_delete_transaction_tags, the new one linked through
\* db_add_transaction_tags; neither result is looked at. f: where a storage
\* error is injected in the first and in the second of the two calls.
ReplaceCategoryTag(st, id, current_tag_blob, new_category, f) ==
    LET old == CategoryFromTags(current_tag_blob)
        Removed(x) ==
            IF old = <<>> THEN x
            ELSE TheOne({IF s.err = "" THEN AfterCommit(s)
                         ELSE [conn |-> Tables(s), disk |-> x.disk] :
                            s \in {DeleteTransactionTagsTry(BeginAt(x.conn, f[1]), id,
                                                            <<<<"category:">> \o old>>)}})
        Added(x) ==
            IF new_category = None THEN x
            ELSE TheOne({IF s.err = "" THEN AfterCommit(s)
                         ELSE [conn |-> x.disk, disk |-> x.disk] :
                            s \in {AddTransactionTagsTry(BeginAt(x.conn, f[2]), id,
                                      <<<<"category:">> \o new_category[1]>>)}})
    IN TheOne({Added(x1) : x1 \in {Removed(x0) : x0 \in {st}}})

\* variant: a type supplied without a magnitude re-signs the current amount
SignedAmountRetyped(cur_amnt, amount, ttype) ==
    IF amount = None
    THEN [err |-> "",
          val |-> IF ttype = None THEN None ELSE Some(SignedFrom(cur_amnt, ttype))]
    ELSE IF ttype = None THEN [err |-> "NameError", val |-> None]
    ELSE [err |-> "", val |-> Some(SignedFrom(amount[1], ttype))]

\* signed_amount of edit_transaction_by_id: None without a magnitude; with a
\* magnitude and no type the current direction is asked of _type_from_amount,
\* which is not defined
SignedAmount(cur_amnt, amount, ttype) ==
    IF amount = None THEN [err |-> "", val |-> None]
    ELSE IF ttype = None THEN [err |-> "NameError", val |-> None]
    ELSE [err |-> "", val |-> Some(SignedFrom(amount[1], ttype))]

\* edit_transaction_by_id: what it leaves on the connection and on disk and
\* what it returns (err: the exception that escapes it)
EditById(st, id, date, description, category, amount, ttype, f) ==
    LET current == CurrentRow(st.conn, id)
        dateArg == IF date = None \/ date[1] = <<>> THEN None ELSE date
        descArg == IF description = None \/ description[1] = <<>> THEN None ELSE description
        sa == SignedAmount(current[1].amnt, amount, ttype)
        signed == sa.val
        Unchanged(ok, err, out) ==
            [conn |-> st.conn, disk |-> st.disk, ok |-> ok, err |-> err, out |-> out]
        Edited(x) == EditTransactionTry(BeginAt(x.conn, 0), id, dateArg, descArg, signed)
        Categorised(x) ==
            IF category = None THEN x
            ELSE ReplaceCategoryTag(x, id, current[1].tags,
                     IF category[1] = <<>> THEN None ELSE category, f)
        Returned(x) ==
            LET updated == RowsToDicts(CurrentRow(x.conn, id))
            IN IF updated.err # ""
               THEN [conn |-> x.conn, disk |-> x.disk, ok |-> FALSE, err |-> updated.err,
                     out |-> <<>>]
               ELSE [conn |-> x.conn, disk |-> x.disk, ok |-> TRUE, err |-> "",
                     out |-> updated.out]
    IN IF current = <<>> THEN Unchanged(FALSE, "", <<"Transaction not found.">>)
       ELSE IF sa.err # "" THEN Unchanged(FALSE, sa.err, <<>>)
       ELSE IF NoCommands(dateArg, descArg, signed) THEN Unchanged(FALSE, "", <<"Edit failed.">>)
       ELSE TheOne({IF s.err # ""
                    THEN [conn |-> st.disk, disk |-> st.disk, ok |-> FALSE, err |-> "",
                          out |-> <<"Edit failed.">>]
                    ELSE TheOne({Returned(x2) : x2 \in {Categorised(x1) : x1 \in {AfterCommit(s)}}}) :
                       s \in {Edited(x0) : x0 \in {st}}})

EditTransactionById(id, date, description, category, amount, ttype, f) ==
    /\ \E r \in {EditById([conn |-> DB, disk |-> disk], id, date, description, category,
                          amount, ttype, f)} :
          /\ \A t \in DOMAIN r.conn.tags : t <= MaxTagId
          /\ DB' = r.conn
          /\ disk' = r.disk
          /\ last' = [Refused("edit_transaction_by_id", id) EXCEPT
                          !.args = <<id, date, description, category, amount, ttype>>,
                          !.ok = r.ok, !.err = r.err, !.out = r.out]
    /\ UNCHANGED issued

\* edit_transaction_by_index: the index checked against the rows just fetched
EditTransactionByIndex(index, date, description, category, amount, ttype) ==
    /\ \E rows \in {FetchAll(DB)} :
          IF index < 0 \/ index >= Len(rows)
          THEN /\ last' = [Refused("edit_transaction_by_index", 0) EXCEPT
                               !.args = <<index, date, description, category, amount, ttype>>,
                               !.out = <<Len(rows)>>]
               /\ UNCHANGED <<DB, disk>>
          ELSE \E r \in {EditById([conn |-> DB, disk |-> disk], rows[index + 1].id, date,
                                  description, category, amount, ttype, <<0, 0>>)} :
                  /\ \A t \in DOMAIN r.conn.tags : t <= MaxTagId
                  /\ DB' = r.conn
                  /\ disk' = r.disk
                  /\ last' = [Refused("edit_transaction_by_index", rows[index + 1].id) EXCEPT
                                  !.args = <<index, date, description, category, amount, ttype>>,
                                  !.ok = r.ok, !.err = r.err, !.out = r.out]
    /\ UNCHANGED issued

Init ==
    /\ DB = EmptyDb
    /\ disk = EmptyDb
    /\ last = [Refused("db_init", 0) EXCEPT !.ok = TRUE]
    /\ issued = {}

\* Storage operations on rows of one content: what varies is the tags, the
\* links, the ids and the storage errors.
Next ==
    \/ \E tagl \in TagLists, f \in Faults(8) :
          DbAddTransaction("2024-01-05", "Coffee", 3, tagl, f)
    \/ \E id \in ArgIds, desc \in Opt({"Coffee"}), f \in Faults(2) :
          DbEditTransaction(id, None, desc, None, f)
    \/ \E id \in ArgIds, tags \in Opt(TagLists), f \in Faults(7) :
          DbAddTransactionTags(id, tags, f)
    \/ \E id \in ArgIds, tags \in Opt(TagLists), f \in Faults(17) :
          DbDeleteTransactionTags(id, tags, f)
    \/ \E tid \in Opt(ArgIds), f \in Faults(5) :
          DbDeleteTransaction(tid, f)
    \/ \E tags \in Opt(TagLists), f \in Faults(3) :
          DbDeleteTag(tags, f)
    \/ \E id \in ArgIds, f \in Faults(4) :
          RemoveTransactionById(id, f)

Spec == Init /\ [][Next]_vars

\* Edits of every column, on rows that carry at most one tag.
NextEdit ==
    \/ \E tagl \in {<<>>, <<"Extra">>} :
          DbAddTransaction("2024-01-05", "Coffee", 3, tagl, 0)
    \/ \E id \in ArgIds, date \in Opt({"2024-02-01"}), desc \in Opt({"Paycheck"}),
          amnt \in Opt(Amounts), f \in Faults(2) :
          DbEditTransaction(id, date, desc, amnt, f)
    \/ \E id \in ArgIds : DbDeleteTransaction(Some(id), 0)

SpecEdit == Init /\ [][NextEdit]_vars

\* The queries, over rows that differ in every column and carry up to two tags.
CategoryFood == <<"category:", "Food">>
Extra == <<"Extra">>
Cof == <<"C", "o", "f">>
Tea == <<"t", "e", "a">>
FetchRows ==
    {<<"2024-01-05", Cof, 3>>, <<"2024-01-05", Tea, -2>>,
     <<"2024-02-01", Cof, -2>>, <<"2024-02-01", Tea, 3>>}
FetchTagLists == {<<>>, <<Extra>>, <<CategoryFood>>, <<CategoryFood, Extra>>}
Exact(v) == [float |-> TRUE, tok |-> "", val |-> v]
Range(tok, v) == [float |-> FALSE, tok |-> tok, val |-> v]
AmntFilters ==
    {Exact(3), Exact(-2), Range("+", 3), Range(">", -2), Range("-", -2),
     Range("<", 3), Range("x", 3), Range("+", 0)}
DescFilters == {<<"c", "o">>, <<"o", "f">>, <<"C">>, <<"t", "_", "a">>, <<"f", "o">>, <<>>}
TagFilters == {<<>>, <<Extra>>, <<CategoryFood>>, <<Extra, <<"Other">>>>}
FilterArgs ==
    {<<date, None, amnt, tags>> :
        date \in Opt(Dates), amnt \in Opt(AmntFilters), tags \in {None, Some(<<Extra>>)}}
    \cup {<<None, Some(d), None, None>> : d \in DescFilters}
    \cup {<<None, None, None, Some(tl)>> : tl \in TagFilters}

NextFetch ==
    \/ \E row \in FetchRows, tagl \in FetchTagLists :
          DbAddTransaction(row[1], row[2], row[3], tagl, 0)
    \/ \E id \in ArgIds : DbDeleteTransaction(Some(id), 0)
    \/ DbFetchAll
    \/ \E a \in FilterArgs : DbFetchSet(a[1], a[2], a[3], a[4])

SpecFetch == Init /\ [][NextFetch]_vars

\* The service layer: adds through both add_transaction functions, a second
\* tag on a transaction, and the two lists.
ServiceCategories ==
    {None, Some(<<>>), Some(<<" ">>), Some(<<"Food">>), Some(<<" ", "Food">>),
     Some(<<"Food", ",", "Drink">>)}
Magnitudes == {0, 3}
ServiceTypes ==
    {Some(<<"income">>), Some(<<"expense">>), Some(<<" ", "Income">>), Some(<<"refund">>)}

NextService ==
    \/ \E category \in ServiceCategories, amount \in Magnitudes, ttype \in ServiceTypes :
          AddTransaction(None, Cof, category, amount, ttype)
    \/ \E category \in ServiceCategories, amount \in Magnitudes, ttype \in ServiceTypes :
          RunnerAddTransaction(Some(<<"2024-01-05">>), Cof, category, amount, ttype)
    \/ \E id \in ArgIds : DbAddTransactionTags(id, Some(<<Extra>>), 0)
    \/ ListTransactions
    \/ RunnerLoadTransactions
    \/ Totals
    \/ RunnerTotals

SpecService == Init /\ [][NextService]_vars

\* The operations by index, on rows added through the service layer.
Indexes == (0 - 1)..MaxTransId
EditArgs ==
    {<<None, Some(Tea), None, None, None>>,
     <<None, Some(Tea), Some(<<"Rent">>), None, None>>,
     <<None, None, Some(<<>>), Some(3), Some(<<"income">>)>>,
     <<None, None, None, Some(3), None>>,
     <<None, None, None, Some(5), None>>,
     <<None, None, None, Some(5), Some(<<"income">>)>>,
     <<None, None, None, None, Some(<<"income">>)>>,
     <<None, Some(Tea), None, None, Some(<<"income">>)>>,
     <<None, None, Some(<<"Rent">>), None, None>>}

NextIndex ==
    \/ \E category \in {None, Some(<<"Food">>)}, ttype \in {Some(<<"income">>), Some(<<"expense">>)} :
          AddTransaction(None, Cof, category, 3, ttype)
    \/ \E index \in Indexes : RunnerRemoveTransactionByIndex(index)
    \/ \E index \in Indexes : RemoveTransactionByIndex(index)
    \/ \E index \in Indexes, a \in EditArgs :
          EditTransactionByIndex(index, a[1], a[2], a[3], a[4], a[5])

SpecIndex == Init /\ [][NextIndex]_vars

\* edit_transaction_by_id with a storage error in its category step, on
\* transactions added with and without a category.
CategoryFaults == {<<0, 0>>} \cup {<<f, 0>> : f \in Faults(5)} \cup {<<0, f>> : f \in Faults(4)}
EditByIdArgs ==
    {<<None, Some(Tea), Some(<<"Rent">>), None, None>>,
     <<None, Some(Tea), Some(<<>>), None, None>>,
     <<None, None, Some(<<"Rent">>), Some(5), Some(<<"income">>)>>,
     <<None, None, Some(<<"Rent">>), None, None>>,
     <<None, Some(Tea), None, None, None>>}

NextEditById ==
    \/ \E category \in {None, Some(<<"Food">>)} :
          AddTransaction(None, Cof, category, 3, Some(<<"expense">>))
    \/ \E id \in ArgIds, a \in EditByIdArgs, f \in CategoryFaults :
          EditTransactionById(id, a[1], a[2], a[3], a[4], a[5], f)

SpecEditById == Init /\ [][NextEditById]_vars

\* ---------------------------------------------------------------- claims
NoOrphan(db) == \A t \in DOMAIN db.tags : LinksOfTag(db.links, t) # {}

\* C1: after any sequence of completed storage operations, every stored
\* (committed) tag row is referenced by at least one transaction-tag link.
C1_NoOrphanTagPersists == NoOrphan(disk)

LinksSound(db) ==
    \A p \in DOMAIN db.links :
        /\ p[1] \in DOMAIN db.trans
        /\ p[2] \in DOMAIN db.tags
        /\ db.links[p] = 1

\* C2: every link refers to a transaction row and a tag row that both exist,
\* and no (transaction_id, tag_id) pair occurs twice; this holds of what the
\* connection sees and of what is committed.
C2_NoDanglingLink == LinksSound(DB) /\ LinksSound(disk)

\* C2 witness: the links survive a db_add_transaction_tags call that named a
\* transaction id of no existing row and was refused by the foreign key.
C2_Witness ==
    /\ last.op = "db_add_transaction_tags"
    /\ last.err = "IntegrityError"
    /\ last.id \notin DOMAIN DB.trans
    /\ DB.links # EmptyTable

\* C3, in every state: no two tag rows bear the same name.
TagNamesUnique(db) ==
    \A t, u \in DOMAIN db.tags : db.tags[t] = db.tags[u] => t = u

\* C3, on every step of db_add_transaction or db_add_transaction_tags that
\* returns True: a tag row that existed keeps its id and name, and every link
\* the call created points to the one row of its name, which is the row that
\* was there before the call when the name was already in the table. And
\* db_add_transaction_tags on an existing transaction meets no constraint
\* violation: a name already in the table is reused, not inserted again.
SharedTagReused ==
    /\ (last'.op = "db_add_transaction_tags" /\ last'.id \in DOMAIN DB.trans) =>
          last'.err # "IntegrityError"
    /\ (last'.op \in {"db_add_transaction", "db_add_transaction_tags"} /\ last'.ok) =>
        /\ \A t \in DOMAIN DB.tags : t \in DOMAIN DB'.tags /\ DB'.tags[t] = DB.tags[t]
        /\ \A p \in (DOMAIN DB'.links) \ (DOMAIN DB.links) :
              /\ p[2] \in DOMAIN DB'.tags
              /\ TagIdsNamed(DB'.tags, DB'.tags[p[2]]) = {p[2]}
              /\ TagIdsNamed(DB.tags, DB'.tags[p[2]]) \subseteq {p[2]}

\* C3: tag names are unique in every reachable state, and giving a name that
\* one transaction carries to another transaction reuses the tag row (and id)
\* the first use created: one tag row, two links.
C3_TagNamesUnique ==
    /\ [](TagNamesUnique(DB) /\ TagNamesUnique(disk))
    /\ [][SharedTagReused]_vars

\* C3 witness: a successful add to transaction 2 has left one tag row that
\* both transactions link to.
C3_Witness ==
    /\ last.op \in {"db_add_transaction", "db_add_transaction_tags"}
    /\ last.ok
    /\ last.id = 2
    /\ \E t \in DOMAIN DB.tags :
          /\ {<<1, t>>, <<2, t>>} \subseteq DOMAIN DB.links
          /\ Cardinality(TagIdsNamed(DB.tags, DB.tags[t])) = 1

\* C4: a db_add_transaction call in which a step fails returns False, leaves
\* the committed transactions, tags and links as they were before the call,
\* and leaves nothing of the call pending on the connection.
C4_AddTransactionAtomic ==
    [][(last'.op = "db_add_transaction" /\ last'.err # "") =>
          (~last'.ok /\ disk' = disk /\ DB' = disk)]_vars

\* C4 witness: an add that failed on its second link (the same name twice in
\* its list), after it had inserted the transaction row, a tag row and a link,
\* into tables that already held rows.
C4_Witness ==
    /\ last.op = "db_add_transaction"
    /\ last.err = "IntegrityError"
    /\ ~last.ok
    /\ disk.trans # EmptyTable
    /\ DB = disk

\* C5: the id a successful db_add_transaction assigns is greater than every
\* id an earlier add assigned, the ids of deleted transactions included.
C5_IdsNeverReused ==
    [][(last'.op = "db_add_transaction" /\ last'.ok) =>
          \A i \in issued : last'.id > i]_vars

\* C6: a delete of an existing transaction that returns True (by
\* db_delete_transaction or remove_transaction_by_id) removes that row and
\* its links and nothing else from those two tables, deletes every tag only
\* that transaction carried, and leaves every tag another transaction still
\* carries in place with its id, name and the other transactions' links.
C6_DeleteTransactionEffect ==
    [][(/\ last'.op \in {"db_delete_transaction", "remove_transaction_by_id"}
        /\ last'.ok
        /\ last'.id \in DOMAIN DB.trans) =>
          LET id == last'.id
              others == {p \in DOMAIN DB.links : p[1] # id}
              kept == {p[2] : p \in others}
          IN /\ DB'.trans = Restrict(DB.trans, (DOMAIN DB.trans) \ {id})
             /\ DB'.links = Restrict(DB.links, others)
             /\ DOMAIN DB'.tags \subseteq DOMAIN DB.tags
             /\ \A t \in DOMAIN DB.tags :
                   /\ t \in kept => (t \in DOMAIN DB'.tags /\ DB'.tags[t] = DB.tags[t])
                   /\ (t \notin kept /\ <<id, t>> \in DOMAIN DB.links) => t \notin DOMAIN DB'.tags
             /\ disk' = DB']_vars

\* C6 witness: db_delete_transaction has pruned a tag and left in place a
\* tag that the other transaction carries.
C6_Witness ==
    /\ last.op = "db_delete_transaction"
    /\ last.ok
    /\ last.pruned > 0
    /\ last.id \notin DOMAIN DB.trans
    /\ \E t \in DOMAIN DB.tags : LinksOfTag(DB.links, t) # {}

\* C7: a delete (db_delete_transaction or remove_transaction_by_id) by an id
\* that no transaction row has, when no statement raises, returns False and
\* leaves transactions, tags and links unchanged.
C7_DeleteMissingReportsFailure ==
    [][(/\ last'.op \in {"db_delete_transaction", "remove_transaction_by_id"}
        /\ last'.id \notin DOMAIN DB.trans
        /\ last'.err = "") =>
          (~last'.ok /\ DB' = DB /\ disk' = disk)]_vars

\* C8: a call of db_edit_transaction, db_add_transaction_tags,
\* db_delete_transaction_tags, db_delete_transaction or db_delete_tag in which
\* a statement raises returns False, changes nothing committed and leaves none
\* of its changes pending for a later commit: the connection is back at the
\* committed tables, or where it was before the call.
C8_AllOrNothing ==
    [][(/\ last'.op \in {"db_edit_transaction", "db_add_transaction_tags",
                         "db_delete_transaction_tags", "db_delete_transaction",
                         "db_delete_tag"}
        /\ last'.err # "") =>
          (~last'.ok /\ disk' = disk /\ (DB' = disk \/ DB' = DB))]_vars

\* C9: db_edit_transaction with no column supplied returns False and changes
\* nothing; with a column supplied and True returned, the row of that id (if
\* any) has the supplied values in the supplied columns and its old values in
\* the others, and every other row, every tag and every link is unchanged.
C9_EditFrame ==
    [][(last'.op = "db_edit_transaction") =>
          LET id == last'.id
              date == last'.args[1]
              desc == last'.args[2]
              amnt == last'.args[3]
          IN IF date = None /\ desc = None /\ amnt = None
             THEN ~last'.ok /\ DB' = DB /\ disk' = disk
             ELSE last'.ok =>
                   /\ DB'.tags = DB.tags
                   /\ DB'.links = DB.links
                   /\ DOMAIN DB'.trans = DOMAIN DB.trans
                   /\ \A i \in DOMAIN DB.trans : i # id => DB'.trans[i] = DB.trans[i]
                   /\ id \in DOMAIN DB.trans =>
                        /\ DB'.trans[id].date = (IF date = None THEN DB.trans[id].date ELSE date[1])
                        /\ DB'.trans[id].desc = (IF desc = None THEN DB.trans[id].desc ELSE desc[1])
                        /\ DB'.trans[id].amnt = (IF amnt = None THEN DB.trans[id].amnt ELSE amnt[1])
                   /\ disk' = DB']_vars

\* C9 witness: an edit that supplied the description and the amount but not
\* the date has succeeded on one of two rows, a tagged one.
C9_Witness ==
    /\ last.op = "db_edit_transaction"
    /\ last.ok
    /\ last.id \in DOMAIN DB.trans
    /\ last.args[1] = None /\ last.args[2] # None /\ last.args[3] # None
    /\ Cardinality(DOMAIN DB.trans) = 2
    /\ LinksOfTrans(DB.links, last.id) # {}

\* C10: in every reachable state, for every existing transaction and every
\* tag list, db_add_transaction_tags returns True, and a second call with the
\* same arguments returns True and leaves the tags and links the first call
\* left, with one row per name and one link per pair.
C10_AddTagsIdempotent ==
    \A id \in DOMAIN DB.trans, tagl \in TagLists :
        LET s1 == AddTransactionTagsTry(BeginAt(DB, 0), id, tagl)
            s2 == AddTransactionTagsTry(BeginAt(Tables(s1), 0), id, tagl)
        IN /\ s1.err = ""
           /\ s2.err = ""
           /\ Tables(s2) = Tables(s1)
           /\ TagNamesUnique(Tables(s2))
           /\ \A p \in DOMAIN s2.links : s2.links[p] = 1
           /\ \A k \in 1..Len(tagl) :
                 \E t \in DOMAIN s2.tags : s2.tags[t] = tagl[k] /\ <<id, t>> \in DOMAIN s2.links

\* C10 witness: db_add_transaction_tags has returned True for a transaction
\* that carries tags, so the calls above re-add tags it already carries.
C10_Witness ==
    /\ last.op = "db_add_transaction_tags"
    /\ last.ok
    /\ last.id \in DOMAIN DB.trans
    /\ Cardinality(LinksOfTrans(DB.links, last.id)) = 2

\* C11: db_delete_tag(names) that returns True leaves no tag row with one of
\* the names and no link to such a tag, whichever transactions carried it;
\* every transaction row is as before, and the tags not named keep their rows
\* and their links. The result is committed.
C11_DeleteTagGlobal ==
    [][(last'.op = "db_delete_tag" /\ last'.ok) =>
          LET names == {last'.args[k] : k \in 1..Len(last'.args)}
              keptTags == {t \in DOMAIN DB.tags : DB.tags[t] \notin names}
          IN /\ \A t \in DOMAIN DB'.tags : DB'.tags[t] \notin names
             /\ \A p \in DOMAIN DB'.links :
                   p[2] \in DOMAIN DB'.tags /\ DB'.tags[p[2]] \notin names
             /\ DB'.trans = DB.trans
             /\ DB'.tags = Restrict(DB.tags, keptTags)
             /\ DB'.links = Restrict(DB.links, {p \in DOMAIN DB.links : p[2] \in keptTags})
             /\ disk' = DB']_vars

\* C11 witness: db_delete_tag(["Extra"]) has returned True while two
\* transactions exist and one of them still carries the tag not named.
C11_Witness ==
    /\ last.op = "db_delete_tag"
    /\ last.ok
    /\ last.args = <<"Extra">>
    /\ Cardinality(DOMAIN DB.trans) = 2
    /\ DOMAIN DB.links # {}

\* C12: what db_fetch_all returned has one row per transaction row, whatever
\* the number of its tags: the ids returned are the transaction ids, none
\* twice; each row has the stored date, description and amount; its tags
\* column is NULL when the transaction has no link and otherwise the names of
\* exactly the linked tags, each once, joined by commas.
C12_FetchAllOneRowPerTransaction ==
    last.op = "db_fetch_all" =>
        LET out == last.out
        IN /\ {out[i].id : i \in 1..Len(out)} = DOMAIN DB.trans
           /\ Len(out) = Cardinality(DOMAIN DB.trans)
           /\ \A i \in 1..Len(out) :
                LET id == out[i].id
                    linked == {p[2] : p \in LinksOfTrans(DB.links, id)}
                    n == Cardinality(linked)
                IN /\ out[i].date = DB.trans[id].date
                   /\ out[i].desc = DB.trans[id].desc
                   /\ out[i].amnt = DB.trans[id].amnt
                   /\ IF linked = {} THEN out[i].tags = None
                      ELSE \E order \in [1..n -> linked] :
                              /\ \A t \in linked : \E k \in 1..n : order[k] = t
                              /\ out[i].tags = Some(Join([k \in 1..n |-> DB.tags[order[k]]]))

\* C12 witness: db_fetch_all has returned two rows, one of a transaction
\* without tags and one of a transaction with two tags.
C12_Witness ==
    /\ last.op = "db_fetch_all"
    /\ Len(last.out) = 2
    /\ \E i \in 1..2 : last.out[i].tags = None
    /\ \E i \in 1..2 : last.out[i].tags = Some(Join(<<CategoryFood, Extra>>))

\* C13: what db_fetch_set returned for a date, an amount and a tag criterion
\* (each supplied or not, no description criterion) is one row, with the
\* stored columns, for exactly the transactions that meet every supplied
\* criterion: the date equal; the amount equal to a float, >= the value for
\* '+' or '>', <= the value for '-' or '<', equal for any other token; one
\* of the listed tags carried. A criterion not supplied excludes nothing.
C13_FetchSetConjunction ==
    (last.op = "db_fetch_set" /\ last.args[2] = None) =>
        LET out == last.out
            date == last.args[1]
            amnt == last.args[3]
            tags == last.args[4]
            DateOk(t) == date = None \/ DB.trans[t].date = date[1]
            AmntOk(t) ==
                \/ amnt = None
                \/ amnt[1].float /\ DB.trans[t].amnt = amnt[1].val
                \/ ~amnt[1].float /\ amnt[1].tok \in {"+", ">"} /\ DB.trans[t].amnt >= amnt[1].val
                \/ ~amnt[1].float /\ amnt[1].tok \in {"-", "<"} /\ DB.trans[t].amnt <= amnt[1].val
                \/ ~amnt[1].float /\ amnt[1].tok \notin {"+", ">", "-", "<"}
                     /\ DB.trans[t].amnt = amnt[1].val
            TagOk(t) ==
                \/ tags = None
                \/ tags[1] = <<>>
                \/ \E p \in LinksOfTrans(DB.links, t), k \in 1..Len(tags[1]) :
                      DB.tags[p[2]] = tags[1][k]
        IN /\ {out[i].id : i \in 1..Len(out)} =
                 {t \in DOMAIN DB.trans : DateOk(t) /\ AmntOk(t) /\ TagOk(t)}
           /\ \A i, j \in 1..Len(out) : out[i].id = out[j].id => i = j
           /\ \A i \in 1..Len(out) :
                 /\ out[i].date = DB.trans[out[i].id].date
                 /\ out[i].desc = DB.trans[out[i].id].desc
                 /\ out[i].amnt = DB.trans[out[i].id].amnt

\* C13 witness: a query by date and by an inclusive lower bound has returned
\* one of two transactions; the other has the date but an amount below the
\* bound, which some transaction meets exactly.
C13_Witness ==
    /\ last.op = "db_fetch_set"
    /\ last.args[1] = Some("2024-01-05")
    /\ last.args[3] = Some(Range("+", 3))
    /\ last.args[2] = None
    /\ Cardinality(DOMAIN DB.trans) = 2
    /\ \A t \in DOMAIN DB.trans : DB.trans[t].date = "2024-01-05"
    /\ Len(last.out) = 1
    /\ last.out[1].amnt = 3

\* C14: what db_fetch_set returned for a tag criterion is the sub-list of
\* db_fetch_all's rows for the transactions that carry one of the listed
\* tags: each returned row is the row db_fetch_all has for that transaction,
\* its tags column naming all the tags of the transaction.
C14_TagFilterRowsAsFetchAll ==
    (/\ last.op = "db_fetch_set"
     /\ last.args[4] # None
     /\ last.args[4] # Some(<<>>)) =>
        LET out == last.out
            all == FetchAll(DB)
            tags == last.args[4][1]
        IN /\ \A i \in 1..Len(out) : \E j \in 1..Len(all) : all[j] = out[i]
           /\ (last.args[1] = None /\ last.args[2] = None /\ last.args[3] = None) =>
                 {out[i].id : i \in 1..Len(out)} =
                    {t \in DOMAIN DB.trans :
                        \E p \in LinksOfTrans(DB.links, t), k \in 1..Len(tags) :
                            DB.tags[p[2]] = tags[k]}

\* The text occurs in the description as a contiguous run of the same
\* characters, case included.
OccursIn(text, desc) ==
    \E start \in 0..(Len(desc) - Len(text)) :
        \A k \in 1..Len(text) : desc[start + k] = text[k]

\* C15: what db_fetch_set returned for a description criterion alone (a text
\* of letters) is the transactions in whose description the text occurs as a
\* contiguous substring with identical letter case, and no other.
C15_DescFilterCaseSensitive ==
    (/\ last.op = "db_fetch_set"
     /\ last.args[2] # None
     /\ \A k \in 1..Len(last.args[2][1]) : last.args[2][1][k] \notin {"%", "_"}
     /\ last.args[1] = None /\ last.args[3] = None /\ last.args[4] = None) =>
        {last.out[i].id : i \in 1..Len(last.out)} =
            {t \in DOMAIN DB.trans : OccursIn(last.args[2][1], DB.trans[t].desc)}

\* a step in which one of the two add_transaction functions stored a
\* transaction of type income or expense
AddStored ==
    /\ last'.op \in {"add_transaction", "runner.add_transaction"}
    /\ last'.ok
    /\ TypeOf(last'.args[3]) \in {<<"income">>, <<"expense">>}

\* what an add that tags the new transaction `id` with the category text c
\* (no tag when c is empty) does to the three tables
AddTranslated(id, m, ttype, c) ==
    /\ id = NextRowid(DB.trans)
    /\ DOMAIN DB'.trans = DOMAIN DB.trans \cup {id}
    /\ \A k \in DOMAIN DB.trans : DB'.trans[k] = DB.trans[k]
    /\ DB'.trans[id].amnt = IF TypeOf(ttype) = <<"income">> THEN -m ELSE m
    /\ IF c = <<>>
       THEN DB'.tags = DB.tags /\ DB'.links = DB.links
       ELSE \E t \in DOMAIN DB'.tags :
               /\ DB'.tags[t] = <<"category:">> \o c
               /\ DB'.links = Put(DB.links, <<id, t>>, 1)
               /\ <<id, t>> \notin DOMAIN DB.links
               /\ DB'.tags = Put(DB.tags, t, <<"category:">> \o c)
               /\ \A u \in DOMAIN DB.tags : DB.tags[u] = DB'.tags[t] => u = t

\* C16 as stated: an add of type income stores the negated magnitude, one of
\* type expense the magnitude; a non-empty category c gives the new
\* transaction exactly one link, to the tag named 'category:c', and an empty
\* or absent category gives it no tag and no link.
C16_AddTranslation ==
    [][AddStored =>
          AddTranslated(last'.id, last'.args[2], last'.args[3],
                        IF last'.args[1] = None THEN <<>> ELSE last'.args[1][1])]_vars

\* the category as the function called tags it: the runner strips it first
CategoryAsTagged(op, category) ==
    IF category = None THEN <<>>
    ELSE IF op = "runner.add_transaction" THEN Strip(category[1])
    ELSE category[1]

\* C16 amended: as C16, the category c being the text given for
\* add_transaction of ExpenseSlasherCore.py and the text given without its
\* leading and trailing blanks for add_transaction of the runner (a category
\* of blanks only is an empty one there).
C16_AddTranslationStripped ==
    [][AddStored =>
          AddTranslated(last'.id, last'.args[2], last'.args[3],
                        CategoryAsTagged(last'.op, last'.args[1]))]_vars

\* C16 witness: both functions have stored an income of magnitude 3, the
\* runner's with category ' Food' linked to the tag 'category:Food', the
\* other with category 'Food' linked to the same tag.
C16_Witness ==
    /\ last.op = "runner.add_transaction"
    /\ last.ok
    /\ last.args = <<Some(<<" ", "Food">>), 3, Some(<<"income">>)>>
    /\ last.id = 2
    /\ DB.trans[1].amnt = -3
    /\ DB.trans[2].amnt = -3
    /\ \E t \in DOMAIN DB.tags :
          /\ DB.tags[t] = <<"category:", "Food">>
          /\ DOMAIN DB.links = {<<1, t>>, <<2, t>>}

\* C17: an add called with a type that is neither 'income' nor 'expense' is
\* rejected with a validation failure before any storage call: the call
\* raises ValueError, no transaction, tag or link is created and what is
\* stored is unchanged.
C17_BadTypeRejected ==
    [][(/\ last'.op \in {"add_transaction", "runner.add_transaction"}
        /\ TypeOf(last'.args[3]) \notin {<<"income">>, <<"expense">>}) =>
          /\ last'.err = "ValueError"
          /\ ~last'.ok
          /\ DB' = DB
          /\ disk' = disk]_vars

\* the category of a transaction read from its tag rows: the text after
\* 'category:' of the linked tag of least tag_id whose name starts with it
CategoryOfTrans(db, id) ==
    LET cats == {p[2] : p \in {q \in LinksOfTrans(db.links, id) :
                                  /\ q[2] \in DOMAIN db.tags
                                  /\ db.tags[q[2]] # <<>>
                                  /\ Head(db.tags[q[2]]) = "category:"}}
    IN IF cats = {} THEN <<>> ELSE Tail(db.tags[Ascending(cats)[1]])

\* C18: whenever a list of transactions has been returned (list_transactions,
\* or load_transactions of the runner), it has one record per stored
\* transaction, and each record has the amount equal to the absolute value of
\* the stored amount, type 'expense' exactly when the stored amount is >= 0
\* and 'income' otherwise, and the category equal to the text after the
\* prefix of the transaction's first tag named 'category:...' ('' when it has
\* none).
C18_ListedRecords ==
    last.op \in {"list_transactions", "runner.load_transactions"} =>
        /\ last.err = ""
        /\ Len(last.out) = Cardinality(DOMAIN DB.trans)
        /\ \A i \in 1..Len(last.out) :
              LET rec == last.out[i]
              IN /\ rec.id \in DOMAIN DB.trans
                 /\ rec.amount = Abs(DB.trans[rec.id].amnt)
                 /\ rec.amount >= 0
                 /\ rec.type = IF DB.trans[rec.id].amnt >= 0 THEN <<"expense">>
                               ELSE <<"income">>
                 /\ rec.category = CategoryOfTrans(DB, rec.id)

\* C19: after an add of type income or expense with a non-negative magnitude
\* (zero included), the list of transactions is the list as it was before
\* the add followed by one record for the new transaction, whose amount is
\* the absolute value of the magnitude given and whose type is the type
\* given; so a sequence of adds is listed in insertion order with the
\* magnitudes and types given.
C19_AddListRoundTrip ==
    [][AddStored =>
          LET before == LoadTransactions(DB)
              after == LoadTransactions(DB')
          IN /\ Len(after) = Len(before) + 1
             /\ SubSeq(after, 1, Len(before)) = before
             /\ after[Len(after)].id = last'.id
             /\ after[Len(after)].amount = Abs(last'.args[2])
             /\ after[Len(after)].type = TypeOf(last'.args[3])]_vars

\* the three operations that take a position in the list of transactions
IndexOps ==
    {"runner.remove_transaction_by_index", "remove_transaction_by_index",
     "edit_transaction_by_index"}

\* C20: remove_transaction_by_index (both) and edit_transaction_by_index
\* called with a negative index, or with an index >= the number of stored
\* transactions, raise nothing and return (False, that number); the
\* transactions, tags and links are unchanged, on the connection and on disk.
C20_IndexOutOfRange ==
    [][(/\ last'.op \in IndexOps
        /\ \/ last'.args[1] < 0
           \/ last'.args[1] >= Cardinality(DOMAIN DB.trans)) =>
          /\ last'.err = ""
          /\ ~last'.ok
          /\ last'.out = <<Cardinality(DOMAIN DB.trans)>>
          /\ DB' = DB
          /\ disk' = disk]_vars

\* C20 witness: with two transactions stored, the runner's
\* remove_transaction_by_index(-1) has returned (False, 2) and both
\* transactions are still there.
C20_Witness ==
    /\ last.op = "runner.remove_transaction_by_index"
    /\ last.args = <<0 - 1>>
    /\ ~last.ok
    /\ last.out = <<2>>
    /\ DOMAIN DB.trans = {1, 2}
    /\ disk = DB

\* C21: remove_transaction_by_index(i) with 0 <= i < the number of listed
\* transactions returns (True, the record listed at position i), and the
\* list afterwards is the list before without its element i, the other
\* records in the same order with the same contents.
C21_RemoveByIndexInRange ==
    [][(/\ last'.op \in {"runner.remove_transaction_by_index",
                          "remove_transaction_by_index"}
        /\ last'.args[1] >= 0
        /\ last'.args[1] < Cardinality(DOMAIN DB.trans)) =>
          LET before == LoadTransactions(DB)
              i == last'.args[1] + 1
          IN /\ last'.err = ""
             /\ last'.ok
             /\ last'.out = <<before[i]>>
             /\ LoadTransactions(DB') =
                   SubSeq(before, 1, i - 1) \o SubSeq(before, i + 1, Len(before))]_vars

\* a step of edit_transaction_by_index on a stored row
EditInRange ==
    /\ last'.op = "edit_transaction_by_index"
    /\ last'.args[1] >= 0
    /\ last'.args[1] < Cardinality(DOMAIN DB.trans)

\* C22: after an edit given a magnitude m, the stored amount of the edited
\* transaction has magnitude m; given no type it keeps the direction it had
\* (negative stays negative, non-negative stays non-negative), given a type
\* it is -m for income and m for expense.
C22_EditSignRule ==
    [][(EditInRange /\ last'.args[5] # None) =>
          LET id == last'.id
              m == last'.args[5][1]
              ttype == last'.args[6]
          IN /\ id \in DOMAIN DB'.trans
             /\ DB'.trans[id].amnt =
                   IF ttype = None
                   THEN (IF DB.trans[id].amnt < 0 THEN -m ELSE m)
                   ELSE (IF TypeOf(ttype) = <<"income">> THEN -m ELSE m)]_vars

\* the three totals read from the stored amounts
RECURSIVE SumOver(_, _)
SumOver(table, ids) ==
    IF ids = {} THEN 0
    ELSE LET k == CHOOSE x \in ids : TRUE
         IN table[k].amnt + SumOver(table, ids \ {k})
IncomeOf(db) == 0 - SumOver(db.trans, {k \in DOMAIN db.trans : db.trans[k].amnt < 0})
ExpensesOf(db) == SumOver(db.trans, {k \in DOMAIN db.trans : db.trans[k].amnt >= 0})

CategoryTagsOf(db, id) ==
    {t \in DOMAIN db.tags :
        /\ <<id, t>> \in DOMAIN db.links
        /\ db.tags[t] # <<>>
        /\ Head(db.tags[t]) = "category:"}

\* a category tag the transaction held is gone from it afterwards, and its
\* row is gone exactly when no other transaction held it
DetachedAndPruned(id, t) ==
    /\ <<id, t>> \notin DOMAIN DB'.links
    /\ (t \in DOMAIN DB'.tags) <=> (\E p \in LinksOfTag(DB.links, t) : p[1] # id)

\* C23: an edit of a stored transaction, whichever other fields it is given:
\* with no category argument the tags and links are as before; with
\* category '' the transaction has no category tag afterwards (it lists
\* category ''), the old tag row pruned iff this transaction was its only
\* holder; with a non-empty category c the transaction has exactly one
\* category tag afterwards, named 'category:c', the old one detached and
\* pruned iff no longer held.
C23_EditCategoryRule ==
    [][EditInRange =>
          LET id == last'.id
              cat == last'.args[4]
              old == CategoryTagsOf(DB, id)
              new == CategoryTagsOf(DB', id)
          IN IF cat = None
             THEN DB'.tags = DB.tags /\ DB'.links = DB.links
             ELSE IF cat[1] = <<>>
             THEN /\ new = {}
                  /\ CategoryOfTrans(DB', id) = <<>>
                  /\ \A t \in old : DetachedAndPruned(id, t)
             ELSE /\ Cardinality(new) = 1
                  /\ \A t \in new : DB'.tags[t] = <<"category:">> \o cat[1]
                  /\ \A t \in old :
                        DB.tags[t] # <<"category:">> \o cat[1] => DetachedAndPruned(id, t)]_vars

\* C24: whenever the totals have been returned (totals, or the three total
\* functions of the runner on the loaded list), income is the sum of the
\* absolute values of the negative stored amounts, expenses the sum of the
\* non-negative stored amounts, net is income - expenses, and neither income
\* nor expenses is negative.
C24_Totals ==
    last.op \in {"totals", "runner.totals"} =>
        LET out == last.out[1]
        IN /\ out.total_income = IncomeOf(DB)
           /\ out.total_expenses = ExpensesOf(DB)
           /\ out.net_savings = IncomeOf(DB) - ExpensesOf(DB)
           /\ out.total_income >= 0
           /\ out.total_expenses >= 0

\* C24 witness: with one income of 3 and one expense of 3 stored, totals has
\* returned income 3, expenses 3 and net 0.
C24_Witness ==
    /\ last.op = "totals"
    /\ \E i, j \in DOMAIN DB.trans : DB.trans[i].amnt = 0 - 3 /\ DB.trans[j].amnt = 3
    /\ last.out = <<[total_income |-> 3, total_expenses |-> 3, net_savings |-> 0]>>

\* C25: db_add_transaction given a tag list in which a name occurs more than
\* once succeeds (no storage error being injected), and the new transaction
\* has exactly one link to the tag of that name.
C25_AddDuplicateTagName ==
    [][(/\ last'.op = "db_add_transaction"
        /\ last'.err # "OperationalError"
        /\ \E i, j \in 1..Len(last'.args) : i < j /\ last'.args[i] = last'.args[j]) =>
          /\ last'.ok
          /\ last'.id \in DOMAIN DB'.trans
          /\ \A i \in 1..Len(last'.args) :
                \E t \in TagIdsNamed(DB'.tags, last'.args[i]) :
                   /\ <<last'.id, t>> \in DOMAIN DB'.links
                   /\ DB'.links[<<last'.id, t>>] = 1]_vars

\* the tag rows that carry one of the names of a list
TagsNamedIn(db, names) ==
    {t \in DOMAIN db.tags : \E k \in 1..Len(names) : db.tags[t] = names[k]}

\* C26: db_delete_transaction_tags(id, names) that returns True has removed
\* the link between id and each named tag and has deleted a named tag row
\* exactly when no link to it remained; a tag carried by another transaction
\* keeps its row, its id and its other links, the transactions and the tags
\* not named are untouched, and a name repeated in the list changes nothing
\* of this. The result is committed.
C26_RemoveTagsEffect ==
    [][(last'.op = "db_delete_transaction_tags" /\ last'.ok) =>
          LET id == last'.id
              named == TagsNamedIn(DB, last'.args)
              unlinked == {p \in DOMAIN DB.links : p[1] = id /\ p[2] \in named}
              left == (DOMAIN DB.links) \ unlinked
              gone == {t \in named : \A p \in left : p[2] # t}
          IN /\ DB'.trans = DB.trans
             /\ DB'.links = Restrict(DB.links, left)
             /\ DB'.tags = Restrict(DB.tags, (DOMAIN DB.tags) \ gone)
             /\ disk' = DB']_vars

\* C26 witness: db_delete_transaction_tags given both names has pruned one
\* tag, while the other tag is still there with the link of another
\* transaction.
C26_Witness ==
    /\ last.op = "db_delete_transaction_tags"
    /\ last.ok
    /\ Len(last.args) = 2
    /\ last.args[1] # last.args[2]
    /\ last.pruned = 1
    /\ last.id \in DOMAIN DB.trans
    /\ LinksOfTrans(DB.links, last.id) = {}
    /\ \E p \in DOMAIN DB.links : p[1] # last.id /\ p[2] \in DOMAIN DB.tags

\* C27: db_delete_transaction_tags(id, names), no storage error occurring,
\* where transaction id has no link to a tag of one of the names, returns True
\* and leaves the transactions, tags and links as they were.
C27_RemoveAbsentTags ==
    [][(/\ last'.op = "db_delete_transaction_tags"
        /\ last'.args # <<>>
        /\ last'.err # "OperationalError"
        /\ \A p \in LinksOfTrans(DB.links, last'.id) :
              p[2] \notin TagsNamedIn(DB, last'.args)) =>
          /\ last'.ok
          /\ DB' = DB]_vars

EditApplied(d, id, date, description, category, amount, ttype) ==
    /\ id \in DOMAIN d.trans
    /\ (date # None /\ date[1] # <<>>) => d.trans[id].date = date[1]
    /\ (description # None /\ description[1] # <<>>) => d.trans[id].desc = description[1]
    /\ (amount # None /\ ttype # None) => d.trans[id].amnt = SignedFrom(amount[1], ttype)
    /\ category # None =>
          {d.tags[t] : t \in CategoryTagsOf(d, id)} =
             (IF category[1] = <<>> THEN {} ELSE {<<"category:">> \o category[1]})

\* C28: edit_transaction_by_id on a stored transaction is all or nothing:
\* either everything it was asked for is committed, or (a step of it having
\* failed, the category-tag removal or addition included) it reports failure
\* and nothing of the call is committed, the date, description and amount
\* included.
C28_EditByIdAtomic ==
    [][(last'.op = "edit_transaction_by_id" /\ last'.id \in DOMAIN DB.trans) =>
          \/ ~last'.ok /\ disk' = disk
          \/ EditApplied(disk', last'.id, last'.args[2], last'.args[3], last'.args[4],
                         last'.args[5], last'.args[6])]_vars

====
